---- MODULE Spec2Model ----
(***************************************************************************)
(* Model of the A2A/ADK agent bridge (samples/python/agents/google_adk and *)
(* google_adk2): the session-scoped invocation bridge (agent.py: invoke /  *)
(* stream) and the MCP tool-provider loader and its release scope          *)
(* (google_adk2/__main__.py: get_tools_async / get_agent_async /           *)
(* async_main).                                                            *)
(*                                                                         *)
(* Three specifications share the variables:                               *)
(*   SpecExtract  the content extraction of invoke and stream applied to   *)
(*                one engine event sequence (pure functions);              *)
(*   Spec         the bridge of one constructed agent: calls of invoke and *)
(*                stream on session keys, scheduled cooperatively (a       *)
(*                coroutine is suspended only at an await);                *)
(*   SpecLoad     the startup of the Sonarqube agent: loading the MCP      *)
(*                servers, building the agent, serving, releasing.         *)
(***************************************************************************)
EXTENDS Integers, Sequences, FiniteSets, TLC

(***************************************************************************)
(* Bounds                                                                  *)
(***************************************************************************)
MaxParts == 2      \* parts of one event's content
MaxEvents == 2     \* events the engine emits: in one turn (SpecExtract), in all turns (Spec)
MaxCalls == 2      \* calls of invoke/stream made on the agent
MaxServers == 3    \* entries of "mcpServers" in mcp_config.json
MaxTools == 1      \* tools one MCP server exposes

(***************************************************************************)
(* Python values                                                           *)
(***************************************************************************)
\* Python's None, as the value of an optional str / FunctionResponse field
None == "<None>"

\* the str values a part's text takes ("" is falsy, like None)
Texts == {"", "a", "b"}

\* FunctionResponse objects (handles)
FunctionResponses == {"F1", "F2"}

\* a str value / the dict made by FunctionResponse.model_dump()
Str(s) == [str |-> s]
model_dump(f) == [dict |-> f]

\* types.Part: at most one of the optional fields is set
Parts ==
    {[text |-> t, function_response |-> None] : t \in Texts \cup {None}}
    \cup {[text |-> None, function_response |-> f] : f \in FunctionResponses}

\* sequences over S of length 0..n
RECURSIVE SeqsUpTo(_, _)
SeqsUpTo(S, n) ==
    IF n = 0 THEN {<<>>}
    ELSE LET shorter == SeqsUpTo(S, n - 1)
         IN  shorter \cup {Append(s, x) : s \in {q \in shorter : Len(q) = n - 1}, x \in S}

\* Event.content: None, or a types.Content with a list of parts
NoContent == [absent |-> TRUE]
Contents == {NoContent} \cup {[parts |-> ps] : ps \in SeqsUpTo(Parts, MaxParts)}

\* an engine event: the result of is_final_response() and its content
Events == [final : BOOLEAN, content : Contents]

\* the events the engine emits before the last one of a turn: every shape of
\* content, one part at most
LightContents ==
    {NoContent, [parts |-> <<>>]}
    \cup {[parts |-> <<p>>] : p \in {q \in Parts : q.text \in {None, "a"}
                                                   /\ q.function_response \in {None, "F1"}}}
LightEvents == [final : BOOLEAN, content : LightContents]

\* the events the engine emits in the turns of Spec: an intermediate event
\* without content, a final response with a text, and a final response whose
\* structured result follows a part that carries neither
ServeEvents ==
    {[final |-> FALSE, content |-> NoContent],
     [final |-> TRUE,
      content |-> [parts |-> <<[text |-> "a", function_response |-> None]>>]],
     [final |-> TRUE,
      content |-> [parts |-> <<[text |-> None, function_response |-> None],
                               [text |-> None, function_response |-> "F1"]>>]]}

\* the event sequences of one turn: the last event takes every content
EventSeqs ==
    {<<>>} \cup {Append(s, e) : s \in SeqsUpTo(LightEvents, MaxEvents - 1), e \in Events}

\* Python truthiness of an optional str, an optional object, a list
TruthyText(t) == t # None /\ t # ""
TruthyContent(c) == c # NoContent
TruthyParts(c) == TruthyContent(c) /\ c.parts # <<>>

(***************************************************************************)
(* Content extraction                                                      *)
(***************************************************************************)
\* "\n".join(list of str)
RECURSIVE join(_)
join(ts) ==
    IF ts = <<>> THEN ""
    ELSE IF Len(ts) = 1 THEN ts[1]
    ELSE ts[1] \o "\n" \o join(Tail(ts))

\* [p.text for p in parts if p.text]
RECURSIVE text_parts(_)
text_parts(ps) ==
    IF ps = <<>> THEN <<>>
    ELSE IF TruthyText(Head(ps).text)
         THEN <<Head(ps).text>> \o text_parts(Tail(ps))
         ELSE text_parts(Tail(ps))

\* invoke reading the first event instead of the last (events[0])
invoke_text_mut(events) ==
    IF events = <<>> \/ ~TruthyParts(events[1].content)
    THEN Str("")
    ELSE Str(join(text_parts(events[1].content.parts)))

\* invoke, after list(self._runner.run(...)): the returned str
invoke_text(events) ==
    IF events = <<>> \/ ~TruthyParts(events[Len(events)].content)
    THEN Str("")
    ELSE Str(join(text_parts(events[Len(events)].content.parts)))

\* any([True for p in parts if p.function_response])
any_function_response(ps) ==
    \E i \in 1..Len(ps) : ps[i].function_response # None

\* the outcome of an expression: a value, or a raised exception
Value(v) == [value |-> v]
Raise(e) == [raise |-> e]
IsRaise(o) == "raise" \in DOMAIN o

\* next((p.function_response.model_dump() for p in parts)): the generator's
\* first item, computed from parts[0] whatever it carries
first_model_dump(ps) ==
    IF ps[1].function_response = None
    THEN Raise("AttributeError")
    ELSE Value(model_dump(ps[1].function_response))

\* stream, the final-response branch: the value of response
response_of(event) ==
    IF TruthyParts(event.content) /\ TruthyText(event.content.parts[1].text)
    THEN Value(Str(join(text_parts(event.content.parts))))
    ELSE IF TruthyParts(event.content) /\ any_function_response(event.content.parts)
    THEN first_model_dump(event.content.parts)
    ELSE Value(Str(""))

\* the two result shapes stream yields
Completed(payload) == [is_task_complete |-> TRUE, content |-> payload]
Progress == [is_task_complete |-> FALSE, updates |-> "Processing the Sonarqube request..."]

\* a stream whose Progress result carries the content of the event
stream_event_mut(event) ==
    IF event.final
    THEN IF IsRaise(response_of(event))
         THEN response_of(event)
         ELSE Value(Completed(response_of(event).value))
    ELSE Value([is_task_complete |-> FALSE,
                updates |-> "Processing the Sonarqube request...",
                content |-> event.content])

\* stream, the body of the async for: what one event makes the generator do
stream_event(event) ==
    IF event.final
    THEN IF IsRaise(response_of(event))
         THEN response_of(event)
         ELSE Value(Completed(response_of(event).value))
    ELSE Value(Progress)

(***************************************************************************)
(* State                                                                   *)
(***************************************************************************)
VARIABLES
    \* SpecExtract: one turn's engine events given to invoke and to stream
    xevents,      \* the engine's event sequence of the turn
    xret,         \* what invoke returned (Unset before it ran)
    xout,         \* the results stream has yielded so far
    xpos,         \* the number of events stream has consumed
    xpc,          \* stream: "running", "done" or "raised"
    \* Spec: the bridge of one agent
    sessions,     \* InMemorySessionService: session_id -> Session or NoSession
    nextObj,      \* identity of the next Session object created
    ops,          \* history of session-service / runner calls, in order
    calls,        \* the calls made on the agent, by call id
    history,      \* Session.events of each Session object, by object identity
    stores,       \* SpecAgents: the InMemorySessionService of each agent instance
    \* SpecLoad: startup of the Sonarqube agent
    mpc,          \* position of async_main
    has_key,      \* GOOGLE_API_KEY is set
    servers,      \* number of entries of config["mcpServers"]
    exposes,      \* number of tools each configured MCP server exposes
    idx,          \* get_tools_async: the entry the for loop is at
    pending,      \* the (toolset, server_stack) from_server has just returned
    tools,        \* get_tools_async: the local list tools
    stack,        \* get_tools_async: the local AsyncExitStack (server stacks)
    exit_stack,   \* async_main: the AsyncExitStack of the async with
    scope,        \* the returned stack: "open", "entered", "releasing", "released"
    agent_tools,  \* SonarqubeAgent.tools (NoAgent before construction)
    attempted,    \* servers from_server was called for
    openLog,      \* servers whose connection was opened, in order
    closeLog,     \* servers whose connection was closed, in order
    exc,          \* the exception propagating through async_main, or None
    errlog,       \* messages given to logger.error
    exitcode      \* argument of exit(), or None

xvars == <<xevents, xret, xout, xpos, xpc>>
bvars == <<sessions, nextObj, ops, calls, history, stores>>
lvars == <<mpc, has_key, servers, exposes, idx, pending, tools, stack, exit_stack,
           scope, agent_tools, attempted, openLog, closeLog, exc, errlog, exitcode>>
lrest == <<mpc, has_key, servers, exposes, idx, pending, tools, stack, exit_stack,
           scope, attempted, openLog, closeLog, exc, errlog, exitcode>>
vars == <<xvars, bvars, lvars>>

Unset == [unset |-> TRUE]
NoSession == [absent |-> TRUE]
NoAgent == [absent |-> TRUE]
NoPending == [absent |-> TRUE]
Keys == {"k1", "k2"}
Calls == 1..MaxCalls
Agents == {"a1", "a2"}
NewCall == [kind |-> "none", key |-> None, pc |-> "new", session |-> NoSession,
            fresh |-> FALSE, out |-> <<>>, ret |-> Unset,
            events |-> <<>>, engine |-> "none", seen |-> <<>>, left |-> <<>>,
            alone |-> FALSE]

\* the variables of a specification that another one leaves at rest
XIdle ==
    /\ xevents = <<>> /\ xret = Unset /\ xout = <<>> /\ xpos = 0 /\ xpc = "idle"
BIdle ==
    /\ sessions = [k \in Keys |-> NoSession] /\ nextObj = 1 /\ ops = <<>>
    /\ calls = [c \in Calls |-> NewCall] /\ history = <<>>
    /\ stores = [a \in Agents |-> [k \in Keys |-> NoSession]]
LRest ==
    /\ mpc = "idle" /\ has_key = TRUE /\ servers = 0 /\ exposes = <<>> /\ idx = 0
    /\ pending = NoPending /\ tools = <<>> /\ stack = <<>> /\ exit_stack = <<>>
    /\ scope = "open"
    /\ attempted = {} /\ openLog = <<>> /\ closeLog = <<>>
    /\ exc = None /\ errlog = <<>> /\ exitcode = None
LIdle == LRest /\ agent_tools = NoAgent

(***************************************************************************)
(* SpecExtract: invoke and stream on the same engine event sequence        *)
(***************************************************************************)
XInit ==
    /\ xevents \in EventSeqs
    /\ xret = Unset /\ xout = <<>> /\ xpos = 0 /\ xpc = "running"
    /\ BIdle /\ LIdle

\* invoke: events = list(run(...)); return the text of events[-1]
XInvoke ==
    /\ xret = Unset
    /\ xret' = invoke_text(xevents)
    /\ UNCHANGED <<xevents, xout, xpos, xpc, bvars, lvars>>

\* stream: one iteration of the async for
XStreamEvent ==
    /\ xpc = "running" /\ xpos < Len(xevents)
    /\ LET o == stream_event(xevents[xpos + 1])
       IN  IF IsRaise(o)
           THEN xpc' = "raised" /\ xout' = xout
           ELSE xpc' = xpc /\ xout' = Append(xout, o.value)
    /\ xpos' = xpos + 1
    /\ UNCHANGED <<xevents, xret, bvars, lvars>>

\* stream: run_async is exhausted, the generator returns
XStreamEnd ==
    /\ xpc = "running" /\ xpos = Len(xevents)
    /\ xpc' = "done"
    /\ UNCHANGED <<xevents, xret, xout, xpos, bvars, lvars>>

XNext == XInvoke \/ XStreamEvent \/ XStreamEnd
SpecExtract == XInit /\ [][XNext]_vars

(***************************************************************************)
(* Spec: the bridge of one agent.  A call of invoke runs to its return     *)
(* without suspension (it is a plain function: list(run(...)) blocks the   *)
(* event loop); a call of stream is suspended only at its async for, once  *)
(* per engine event.  The engine may fail in a turn, and the caller of a   *)
(* stream may stop iterating after a Progress result.  Each Session has    *)
(* the log the runner keeps for it (new_message, then the engine's events).*)
(***************************************************************************)
EmptyState == <<>>

\* a lookup that never finds the stored Session
get_session_mut(store, session_id) == NoSession

\* session_service.get_session(...): the stored Session or None
get_session(store, session_id) == store[session_id]

\* a creation that does not start from the empty state
create_session_mut(session_id, obj) ==
    [id |-> session_id, obj |-> obj, state |-> <<"stale">>]

\* session_service.create_session(state={}, session_id=...): a new Session
create_session(session_id, obj) ==
    [id |-> session_id, obj |-> obj, state |-> EmptyState]

\* a creation that forgets the Sessions of the other keys
resolve_session_mut(store, session_id, obj, c) ==
    LET new == create_session(session_id, obj)
    IN  [session |-> new, fresh |-> TRUE,
         store |-> [k \in DOMAIN store |-> IF k = session_id THEN new ELSE NoSession],
         ops |-> <<[op |-> "get_session", call |-> c, key |-> session_id],
                   [op |-> "create_session", call |-> c, key |-> session_id,
                    session |-> new]>>]

\* invoke / stream, up to the call of the runner: the local variable session,
\* whether it was created, the store afterwards, the calls made
resolve_session(store, session_id, obj, c) ==
    LET got == get_session(store, session_id)
        getOp == [op |-> "get_session", call |-> c, key |-> session_id]
    IN  IF got = NoSession
        THEN LET new == create_session(session_id, obj)
             IN  [session |-> new, fresh |-> TRUE,
                  store |-> [store EXCEPT ![session_id] = new],
                  ops |-> <<getOp, [op |-> "create_session", call |-> c,
                                    key |-> session_id, session |-> new]>>]
        ELSE [session |-> got, fresh |-> FALSE, store |-> store, ops |-> <<getOp>>]

\* runner.run / run_async(session_id=session.id): the runner looks the
\* session up by its id (and refuses an id the store does not know)
run_op(store, session, c) ==
    [op |-> "run", call |-> c, key |-> session.id, session |-> store[session.id]]

\* the toolset MCPToolset.from_server returns for server i
toolset_of(i, n) == [j \in 1..n |-> [server |-> i, tool |-> j]]

\* the registry the agent of this specification was constructed with
Registry == [tools |-> toolset_of(1, MaxTools)]

\* a turn that takes a tool away from the registry
run_tools_mut(registry) ==
    [tools |-> SubSeq(registry.tools, 1, Len(registry.tools) - 1)]

\* the registry after the runner has run a turn: LlmAgent(tools=self.tools)
\* is built once, invoke and stream only pass it to the runner
run_tools(registry) == registry

\* the entries of Session.events
UserEntry(c) == [call |-> c, author |-> "user"]
AgentEntry(c) == [call |-> c, author |-> "agent"]

\* a runner that puts the newest entry first
append_event_mut(log, entry) == <<entry>> \o log

\* the runner records new_message, and each event of the engine, at the end
\* of the events of the Session the turn runs against
append_event(log, entry) == Append(log, entry)

\* the log after the n events of the engine in the turn of call c
RECURSIVE append_agent(_, _, _)
append_agent(log, c, n) ==
    IF n = 0 THEN log
    ELSE append_event(append_agent(log, c, n - 1), AgentEntry(c))

\* no turn on the session of key k is under way: every stream on it has
\* returned or raised
quiet(cs, k) ==
    \A d \in DOMAIN cs : cs[d].key = k => cs[d].pc \notin {"streaming", "abandoned"}

\* an invoke that answers "" when the engine fails
invoke_outcome_mut(events, failed) ==
    Value(IF failed THEN Str("") ELSE invoke_text(events))

\* invoke: list(run(...)) is not guarded, an exception of the engine leaves
\* invoke; otherwise the text of the last event is returned
invoke_outcome(events, failed) ==
    IF failed THEN Raise("EngineError") ELSE Value(invoke_text(events))

\* a stream that swallows the exception of the engine and goes on
stream_failure_mut(call) == [call EXCEPT !.engine = "failed"]

\* stream: the async for is not guarded, an exception of run_async leaves
\* the generator, which is finished by it
stream_failure(call) == [call EXCEPT !.pc = "failed", !.engine = "failed"]

\* the number of events the engine has emitted in the turns of calls 1..n
RECURSIVE Emitted(_, _)
Emitted(cs, n) == IF n = 0 THEN 0 ELSE Len(cs[n].events) + Emitted(cs, n - 1)

BInit ==
    /\ sessions = [k \in Keys |-> NoSession]
    /\ nextObj = 1
    /\ ops = <<>>
    /\ calls = [c \in Calls |-> NewCall]
    /\ history = <<>>
    /\ stores = [a \in Agents |-> [k \in Keys |-> NoSession]]
    /\ XIdle /\ LRest
    /\ agent_tools = Registry

\* calls are numbered in the order in which they start
Arrives(c) ==
    /\ calls[c].pc = "new"
    /\ \A d \in 1..(c - 1) : calls[d].pc # "new"

\* invoke(query, session_id), the whole call; the engine emits events and
\* then completes, or fails
Invoke(c, k, events, failed) ==
    /\ Arrives(c)
    /\ Emitted(calls, MaxCalls) + Len(events) <= MaxEvents
    /\ LET r == resolve_session(sessions, k, nextObj, c)
           run == run_op(r.store, r.session, c)
           logs == IF r.fresh THEN Append(history, <<>>) ELSE history
           seen == logs[r.session.obj]
           log == append_agent(append_event(seen, UserEntry(c)), c, Len(events))
           o == invoke_outcome(events, failed)
       IN  /\ sessions' = r.store
           /\ nextObj' = IF r.fresh THEN nextObj + 1 ELSE nextObj
           /\ IF run.session = NoSession
              THEN /\ history' = logs
                   /\ ops' = ops \o r.ops \o <<run>>
                   /\ calls' = [calls EXCEPT ![c] =
                          [kind |-> "invoke", key |-> k, session |-> r.session,
                           fresh |-> r.fresh, out |-> <<>>, pc |-> "rejected",
                           ret |-> Unset, events |-> <<>>, engine |-> "none",
                           seen |-> seen, left |-> seen,
                           alone |-> quiet(calls, k)]]
              ELSE /\ history' = [logs EXCEPT ![r.session.obj] = log]
                   /\ ops' = ops \o r.ops \o <<run>>
                   /\ calls' = [calls EXCEPT ![c] =
                          [kind |-> "invoke", key |-> k, session |-> r.session,
                           fresh |-> r.fresh, out |-> <<>>,
                           pc |-> IF IsRaise(o) THEN "failed" ELSE "done",
                           ret |-> IF IsRaise(o) THEN Unset ELSE o.value,
                           events |-> events,
                           engine |-> IF failed THEN "failed" ELSE "over",
                           seen |-> seen, left |-> log,
                           alone |-> quiet(calls, k)]]
    /\ agent_tools' = run_tools(agent_tools)
    /\ UNCHANGED <<stores, xvars, lrest>>

\* stream(query, session_id), from the first __anext__ to the first await
\* of the async for
StreamStart(c, k) ==
    /\ Arrives(c)
    /\ LET r == resolve_session(sessions, k, nextObj, c)
           run == run_op(r.store, r.session, c)
           logs == IF r.fresh THEN Append(history, <<>>) ELSE history
           seen == logs[r.session.obj]
       IN  /\ sessions' = r.store
           /\ nextObj' = IF r.fresh THEN nextObj + 1 ELSE nextObj
           /\ ops' = ops \o r.ops \o <<run>>
           /\ IF run.session = NoSession
              THEN /\ history' = logs
                   /\ calls' = [calls EXCEPT ![c] =
                          [kind |-> "stream", key |-> k, session |-> r.session,
                           fresh |-> r.fresh, out |-> <<>>, ret |-> Unset,
                           pc |-> "rejected", events |-> <<>>, engine |-> "none",
                           seen |-> seen, left |-> seen,
                           alone |-> quiet(calls, k)]]
              ELSE /\ history' = [logs EXCEPT ![r.session.obj] =
                                      append_event(seen, UserEntry(c))]
                   /\ calls' = [calls EXCEPT ![c] =
                          [kind |-> "stream", key |-> k, session |-> r.session,
                           fresh |-> r.fresh, out |-> <<>>, ret |-> Unset,
                           pc |-> "streaming", events |-> <<>>,
                           engine |-> "running", seen |-> seen, left |-> <<>>,
                           alone |-> quiet(calls, k)]]
    /\ agent_tools' = run_tools(agent_tools)
    /\ UNCHANGED <<stores, xvars, lrest>>

\* stream: the engine emits an event, the runner records it, the body of the
\* async for handles it
StreamEvent(c, event) ==
    /\ calls[c].pc = "streaming"
    /\ Emitted(calls, MaxCalls) < MaxEvents
    /\ LET o == stream_event(event)
           obj == calls[c].session.obj
           log == append_event(history[obj], AgentEntry(c))
       IN  /\ history' = [history EXCEPT ![obj] = log]
           /\ calls' = [calls EXCEPT ![c] =
                  IF IsRaise(o)
                  THEN [@ EXCEPT !.pc = "raised", !.events = Append(@, event),
                                 !.left = log]
                  ELSE [@ EXCEPT !.out = Append(@, o.value),
                                 !.events = Append(@, event)]]
    /\ agent_tools' = run_tools(agent_tools)
    /\ UNCHANGED <<sessions, nextObj, ops, stores, xvars, lrest>>

\* stream: run_async is exhausted, the generator returns
StreamEnd(c) ==
    /\ calls[c].pc = "streaming"
    /\ calls' = [calls EXCEPT ![c] =
           [@ EXCEPT !.pc = "done", !.engine = "over",
                     !.left = history[calls[c].session.obj]]]
    /\ UNCHANGED <<sessions, nextObj, ops, history, stores, xvars, lvars>>

\* stream: the engine fails, run_async raises into the async for
StreamFail(c) ==
    /\ calls[c].pc = "streaming"
    /\ calls' = [calls EXCEPT ![c] =
           [stream_failure(@) EXCEPT !.left = history[calls[c].session.obj]]]
    /\ UNCHANGED <<sessions, nextObj, ops, history, stores, xvars, lvars>>

\* the caller stops iterating after a Progress result: the generator stays
\* suspended at its yield, nothing in stream or in its caller closes it or
\* the run_async generator it iterates
Abandon(c) ==
    /\ calls[c].pc = "streaming"
    /\ calls[c].out # <<>>
    /\ calls[c].out[Len(calls[c].out)] = Progress
    /\ calls' = [calls EXCEPT ![c].pc = "abandoned"]
    /\ UNCHANGED <<sessions, nextObj, ops, history, stores, xvars, lvars>>

\* the abandoned generator is collected: the event loop closes it, and the
\* run_async generator with it (this may happen late or never, depending on
\* who still refers to the generator)
Finalize(c) ==
    /\ calls[c].pc = "abandoned"
    /\ calls[c].engine = "running"
    /\ calls' = [calls EXCEPT ![c].engine = "cancelled"]
    /\ UNCHANGED <<sessions, nextObj, ops, history, stores, xvars, lvars>>

\* session keys are interchangeable: the key of the first call is named k1
KeysOf(c) == IF c = 1 THEN {"k1"} ELSE Keys

\* the runs of the engine an invoke is checked with: the engine completes
\* after some events, or fails at once
Runs ==
    {[events |-> e, failed |-> FALSE] : e \in SeqsUpTo(ServeEvents, MaxEvents)}
        \cup {[events |-> <<>>, failed |-> TRUE]}

Next ==
    \/ \E c \in Calls : \E k \in KeysOf(c), run \in Runs :
           Invoke(c, k, run.events, run.failed)
    \/ \E c \in Calls : \E k \in KeysOf(c) : StreamStart(c, k)
    \/ \E c \in Calls, event \in ServeEvents : StreamEvent(c, event)
    \/ \E c \in Calls : StreamEnd(c)
    \/ \E c \in Calls : StreamFail(c)
    \/ \E c \in Calls : Abandon(c)
    \/ \E c \in Calls : Finalize(c)

Spec == BInit /\ [][Next]_vars

(***************************************************************************)
(* SpecAgents: several agent instances, each with the session service its  *)
(* __init__ constructed.  A turn is an invoke or a stream of one of them,  *)
(* from the lookup of the Session to the end of the turn.                  *)
(***************************************************************************)
AInit ==
    /\ stores = [a \in Agents |-> [k \in Keys |-> NoSession]]
    /\ sessions = [k \in Keys |-> NoSession]
    /\ nextObj = 1
    /\ ops = <<>>
    /\ calls = [c \in Calls |-> NewCall]
    /\ history = <<>>
    /\ XIdle /\ LRest
    /\ agent_tools = Registry

\* invoke / stream of agent a with session key k: the Session is looked up
\* in, and created in, the session service of a; the runner of a records
\* the query in the Session it runs against; the engine completes or fails
Turn(a, c, k, kind, failed) ==
    /\ Arrives(c)
    /\ LET r == resolve_session(stores[a], k, nextObj, c)
           run == run_op(r.store, r.session, c)
           logs == IF r.fresh THEN Append(history, <<>>) ELSE history
           seen == logs[r.session.obj]
           log == append_event(seen, UserEntry(c))
       IN  /\ stores' = [stores EXCEPT ![a] = r.store]
           /\ nextObj' = IF r.fresh THEN nextObj + 1 ELSE nextObj
           /\ ops' = ops \o r.ops \o <<run>>
           /\ history' = IF run.session = NoSession THEN logs
                         ELSE [logs EXCEPT ![r.session.obj] = log]
           /\ calls' = [calls EXCEPT ![c] =
                  [NewCall EXCEPT !.kind = kind, !.key = k, !.session = r.session,
                                  !.fresh = r.fresh, !.seen = seen, !.left = log,
                                  !.engine = IF failed THEN "failed" ELSE "over",
                                  !.pc = IF run.session = NoSession THEN "rejected"
                                         ELSE IF failed THEN "failed" ELSE "done"]]
    /\ UNCHANGED <<sessions, xvars, lvars>>

ANext ==
    \E a \in Agents, c \in Calls, k \in Keys, kind \in {"invoke", "stream"},
       failed \in BOOLEAN :
        Turn(a, c, k, kind, failed)

SpecAgents == AInit /\ [][ANext]_vars

(***************************************************************************)
(* SpecLoad: startup of the Sonarqube agent (google_adk2/__main__.py).     *)
(* The MCP servers of the configuration are 1..servers, in the order of    *)
(* the "mcpServers" dict.  Whether a server connects, and whether building *)
(* the agent or the server fails, is the environment's choice.             *)
(***************************************************************************)

\* an exit stack that runs its callbacks first-in first-out
next_exit_mut(st) == IF st = <<>> THEN 0 ELSE 1

\* AsyncExitStack.__aexit__: the callback run next is the last one pushed
next_exit(st) == Len(st)

\* a stack without its entry at position i
without(st, i) == [j \in 1..(Len(st) - 1) |-> IF j < i THEN st[j] ELSE st[j + 1]]

\* if not os.getenv("GOOGLE_API_KEY")
missing_key_mut(key_set) == FALSE

missing_key(key_set) == ~key_set

\* for name, server in mcp_servers.items(): the entry after entry i
next_entry_mut(i) == i

next_entry(i) == i + 1

\* the for loop has no entry left once entry i is past the n configured ones
loop_done_mut(i, n) == i >= n

loop_done(i, n) == i > n

\* a stack that is born holding a callback
new_stack_mut == <<0>>

\* stack = AsyncExitStack(): a stack with no callback
new_stack == <<>>

LInit ==
    /\ mpc = "start"
    /\ has_key \in BOOLEAN
    /\ servers \in 0..MaxServers
    /\ exposes \in [1..servers -> 0..MaxTools]
    /\ idx = 0 /\ pending = NoPending /\ tools = <<>> /\ stack = <<>>
    /\ exit_stack = <<>> /\ scope = "open" /\ agent_tools = NoAgent
    /\ attempted = {} /\ openLog = <<>> /\ closeLog = <<>>
    /\ exc = None /\ errlog = <<>> /\ exitcode = None
    /\ XIdle /\ BIdle

\* async_main: the credential check; then the async with is entered and
\* get_agent_async calls get_tools_async, which reads the configuration
CheckKey ==
    /\ mpc = "start"
    /\ IF missing_key(has_key)
       THEN mpc' = "handler" /\ idx' = idx /\ exc' = "MissingAPIKeyError"
            /\ stack' = stack
       ELSE mpc' = "load" /\ idx' = 1 /\ exc' = exc
            /\ stack' = new_stack
    /\ UNCHANGED <<has_key, servers, exposes, pending, tools, exit_stack, scope,
                   agent_tools, attempted, openLog, closeLog, errlog, exitcode,
                   xvars, bvars>>

\* get_tools_async: the loop takes its next entry and calls
\* MCPToolset.from_server(...); the coroutine waits for the connection
FromServerCall ==
    /\ mpc = "load" /\ ~loop_done(idx, servers)
    /\ attempted' = attempted \cup {idx}
    /\ mpc' = "connecting"
    /\ UNCHANGED <<has_key, servers, exposes, idx, pending, tools, stack, exit_stack,
                   scope, agent_tools, openLog, closeLog, exc, errlog, exitcode,
                   xvars, bvars>>

\* get_tools_async: await MCPToolset.from_server(...) returns a toolset and
\* the stack that owns the connection
FromServerOk ==
    /\ mpc = "connecting"
    /\ attempted' = attempted
    /\ openLog' = Append(openLog, idx)
    /\ pending' = [toolset |-> toolset_of(idx, exposes[idx]), server_stack |-> idx]
    /\ mpc' = "merge"
    /\ UNCHANGED <<has_key, servers, exposes, idx, tools, stack, exit_stack, scope,
                   agent_tools, closeLog, exc, errlog, exitcode, xvars, bvars>>

\* get_tools_async: from_server raises; nothing catches it before the async
\* with of async_main, and the local stack is dropped as it is
FromServerFail ==
    /\ mpc = "connecting"
    /\ attempted' = attempted
    /\ exc' = "ProviderConnectError"
    /\ mpc' = "unwind"
    /\ UNCHANGED <<has_key, servers, exposes, idx, pending, tools, stack, exit_stack,
                   scope, agent_tools, openLog, closeLog, errlog, exitcode,
                   xvars, bvars>>

\* get_tools_async: tools.extend(toolset); await stack.enter_async_context(
\* server_stack); next entry
MergeRegister ==
    /\ mpc = "merge"
    /\ tools' = tools \o pending.toolset
    /\ stack' = Append(stack, pending.server_stack)
    /\ pending' = NoPending
    /\ idx' = next_entry(idx)
    /\ mpc' = "load"
    /\ UNCHANGED <<has_key, servers, exposes, exit_stack, scope, agent_tools, attempted,
                   openLog, closeLog, exc, errlog, exitcode, xvars, bvars>>

\* get_tools_async: tools.extend(toolset) is done, then
\* await stack.enter_async_context(server_stack) raises: the exception
\* leaves get_tools_async with the toolset merged and the connection not on
\* the stack
MergeRegisterFail ==
    /\ mpc = "merge"
    /\ tools' = tools \o pending.toolset
    /\ exc' = "RegisterError"
    /\ mpc' = "unwind"
    /\ UNCHANGED <<has_key, servers, exposes, idx, pending, stack, exit_stack, scope,
                   agent_tools, attempted, openLog, closeLog, errlog, exitcode,
                   xvars, bvars>>

\* get_tools_async: the loop is over, return tools, stack
LoadReturn ==
    /\ mpc = "load" /\ loop_done(idx, servers)
    /\ mpc' = "build"
    /\ UNCHANGED <<has_key, servers, exposes, idx, pending, tools, stack, exit_stack,
                   scope, agent_tools, attempted, openLog, closeLog, exc, errlog,
                   exitcode, xvars, bvars>>

\* get_agent_async: SonarqubeAgent(tools=tools); return root_agent, exit_stack
BuildAgent ==
    /\ mpc = "build"
    /\ agent_tools' = [tools |-> tools]
    /\ mpc' = "enter"
    /\ UNCHANGED <<has_key, servers, exposes, idx, pending, tools, stack, exit_stack,
                   scope, attempted, openLog, closeLog, exc, errlog, exitcode,
                   xvars, bvars>>

\* get_agent_async: the construction of the agent raises
BuildAgentFail ==
    /\ mpc = "build"
    /\ exc' = "AgentError"
    /\ mpc' = "unwind"
    /\ UNCHANGED <<has_key, servers, exposes, idx, pending, tools, stack, exit_stack,
                   scope, agent_tools, attempted, openLog, closeLog, errlog, exitcode,
                   xvars, bvars>>

\* async_main: await exit_stack.enter_async_context(tools_exit_stack)
EnterScope ==
    /\ mpc = "enter"
    /\ exit_stack' = Append(exit_stack, "tools_exit_stack")
    /\ scope' = "entered"
    /\ mpc' = "server"
    /\ UNCHANGED <<has_key, servers, exposes, idx, pending, tools, stack, agent_tools,
                   attempted, openLog, closeLog, exc, errlog, exitcode, xvars, bvars>>

\* async_main: A2AServer(...), then await server.start_async() is running
BuildServer ==
    /\ mpc = "server"
    /\ mpc' = "serving"
    /\ UNCHANGED <<has_key, servers, exposes, idx, pending, tools, stack, exit_stack,
                   scope, agent_tools, attempted, openLog, closeLog, exc, errlog,
                   exitcode, xvars, bvars>>

\* async_main: the construction of the task manager or the server raises
BuildServerFail ==
    /\ mpc = "server"
    /\ exc' = "ServerError"
    /\ mpc' = "unwind"
    /\ UNCHANGED <<has_key, servers, exposes, idx, pending, tools, stack, exit_stack,
                   scope, agent_tools, attempted, openLog, closeLog, errlog, exitcode,
                   xvars, bvars>>

\* async_main: start_async returns (the server stopped) or raises
ServerStop(failed) ==
    /\ mpc = "serving"
    /\ exc' = IF failed THEN "ServerError" ELSE None
    /\ mpc' = "unwind"
    /\ UNCHANGED <<has_key, servers, exposes, idx, pending, tools, stack, exit_stack,
                   scope, agent_tools, attempted, openLog, closeLog, errlog, exitcode,
                   xvars, bvars>>

\* the async with is left: exit_stack runs its next callback, the __aexit__
\* of the stack get_tools_async returned
ReleaseOuter ==
    /\ mpc = "unwind" /\ exit_stack # <<>>
    /\ exit_stack' = without(exit_stack, next_exit(exit_stack))
    /\ scope' = "releasing"
    /\ mpc' = "release"
    /\ UNCHANGED <<has_key, servers, exposes, idx, pending, tools, stack, agent_tools,
                   attempted, openLog, closeLog, exc, errlog, exitcode, xvars, bvars>>

\* the returned stack runs its next callback: a server stack is left, its
\* connection is closed
ReleaseStep ==
    /\ mpc = "release" /\ stack # <<>>
    /\ closeLog' = Append(closeLog, stack[next_exit(stack)])
    /\ stack' = without(stack, next_exit(stack))
    /\ UNCHANGED <<mpc, has_key, servers, exposes, idx, pending, tools, exit_stack,
                   scope, agent_tools, attempted, openLog, exc, errlog, exitcode,
                   xvars, bvars>>

\* the returned stack has no callback left
ReleaseDone ==
    /\ mpc = "release" /\ stack = <<>>
    /\ scope' = "released"
    /\ mpc' = "unwind"
    /\ UNCHANGED <<has_key, servers, exposes, idx, pending, tools, stack, exit_stack,
                   agent_tools, attempted, openLog, closeLog, exc, errlog, exitcode,
                   xvars, bvars>>

\* exit_stack has no callback left: async_main returns, or the exception
\* reaches the except clauses
UnwindDone ==
    /\ mpc = "unwind" /\ exit_stack = <<>>
    /\ mpc' = IF exc = None THEN "returned" ELSE "handler"
    /\ UNCHANGED <<has_key, servers, exposes, idx, pending, tools, stack, exit_stack,
                   scope, agent_tools, attempted, openLog, closeLog, exc, errlog,
                   exitcode, xvars, bvars>>

\* async_main: except MissingAPIKeyError / except Exception: log, exit(1)
Handler ==
    /\ mpc = "handler"
    /\ errlog' = Append(errlog,
           IF exc = "MissingAPIKeyError" THEN "Error"
           ELSE "An error occurred during server startup")
    /\ exitcode' = 1
    /\ mpc' = "exited"
    /\ UNCHANGED <<has_key, servers, exposes, idx, pending, tools, stack, exit_stack,
                   scope, agent_tools, attempted, openLog, closeLog, exc, xvars, bvars>>

LNext ==
    \/ CheckKey
    \/ FromServerCall
    \/ FromServerOk
    \/ FromServerFail
    \/ MergeRegister
    \/ MergeRegisterFail
    \/ LoadReturn
    \/ BuildAgent
    \/ BuildAgentFail
    \/ EnterScope
    \/ BuildServer
    \/ BuildServerFail
    \/ \E failed \in BOOLEAN : ServerStop(failed)
    \/ ReleaseOuter
    \/ ReleaseStep
    \/ ReleaseDone
    \/ UnwindDone
    \/ Handler

SpecLoad == LInit /\ [][LNext]_vars

(***************************************************************************)
(* Properties of the content extraction (SpecExtract)                      *)
(***************************************************************************)
\* what the specification calls the textual fragments of a content, joined
TextOf(c) ==
    IF c = NoContent THEN ""
    ELSE LET texts == SelectSeq(c.parts, LAMBDA p : p.text \notin {None, ""})
         IN  join([i \in 1..Len(texts) |-> texts[i].text])

HasText(c) ==
    c # NoContent /\ \E i \in 1..Len(c.parts) : c.parts[i].text \notin {None, ""}

HasStructured(c) ==
    c # NoContent /\ \E i \in 1..Len(c.parts) : c.parts[i].function_response # None

FirstStructured(c) ==
    LET i == CHOOSE j \in 1..Len(c.parts) :
                 /\ c.parts[j].function_response # None
                 /\ \A h \in 1..(j - 1) : c.parts[h].function_response = None
    IN  c.parts[i].function_response

\* the payload the specification selects for a final event
SelectedPayload(c) ==
    IF HasText(c) THEN Str(TextOf(c))
    ELSE IF HasStructured(c) THEN model_dump(FirstStructured(c))
    ELSE Str("")

\* stream raised while handling event i / yielded result r for event i
RaisedAt(i) == xpc = "raised" /\ i = xpos
YieldedFor(i, r) == i <= Len(xout) /\ xout[i] = r

\* C2: when stream is exhausted, the yielded results end with exactly one
\* Completed result and every result before it is a Progress result
C2_OneCompletedLast ==
    xpc = "done" =>
        /\ Len(xout) >= 1
        /\ xout[Len(xout)].is_task_complete
        /\ \A i \in 1..(Len(xout) - 1) : ~xout[i].is_task_complete

\* C3: for every final event stream has handled, it did not fail and it
\* yielded Completed with the payload selected as: joined texts if any text,
\* else the first structured part, else the empty string
C3_PayloadSelection ==
    \A i \in 1..xpos :
        xevents[i].final =>
            /\ ~RaisedAt(i)
            /\ YieldedFor(i, Completed(SelectedPayload(xevents[i].content)))

\* C4: a final event carrying both text parts and structured parts, in any
\* order, yields the joined text and never the structured part
C4_TextPriority ==
    \A i \in 1..xpos :
        (/\ xevents[i].final
         /\ HasText(xevents[i].content)
         /\ HasStructured(xevents[i].content))
        => YieldedFor(i, Completed(Str(TextOf(xevents[i].content))))

\* C5: invoke returns the newline-join of the non-empty text parts of the
\* last event; with no event, no content, no parts or no text part it
\* returns the empty string (it always returns a str, it never raises)
C5_InvokeText ==
    xret # Unset =>
        IF xevents = <<>> THEN xret = Str("")
        ELSE xret = Str(TextOf(xevents[Len(xevents)].content))

C5_Witness ==
    /\ Len(xevents) = 2
    /\ xevents[1].content # xevents[2].content
    /\ xret = Str("b\na")

\* C6: the str invoke returns equals the payload of every Completed result
\* obtained by draining stream on the same event sequence
C6_InvokeEqualsStream ==
    (xret # Unset /\ xpc \in {"done", "raised"}) =>
        /\ xpc = "done"
        /\ \A i \in 1..Len(xout) :
               xout[i].is_task_complete => xout[i].content = xret

(***************************************************************************)
(* Properties of the bridge (Spec)                                         *)
(***************************************************************************)
\* positions in the history of the calls of one kind
OpsOf(op) == {i \in 1..Len(ops) : ops[i].op = op}
CreatesFor(k) == {i \in OpsOf("create_session") : ops[i].key = k}
Started(c) == calls[c].pc # "new"

\* C1: for every session key at most one Session is ever created, and every
\* call that has resolved the key (interleaved with others or not) holds that
\* Session, which is the one stored and the one every turn is run against
C1_OneSessionPerKey ==
    \A k \in Keys :
        /\ Cardinality(CreatesFor(k)) <= 1
        /\ \A c \in Calls :
               (Started(c) /\ calls[c].key = k) =>
                   \E i \in CreatesFor(k) :
                       /\ calls[c].session = ops[i].session
                       /\ sessions[k] = ops[i].session
        /\ \A r \in OpsOf("run") :
               ops[r].key = k => \E i \in CreatesFor(k) : ops[r].session = ops[i].session

\* two calls on one key, the second resolved while the first is suspended
C1_Witness ==
    /\ calls[1].kind = "stream" /\ calls[1].pc = "streaming" /\ calls[1].fresh
    /\ Started(2) /\ calls[2].key = calls[1].key
    /\ Len(calls[1].out) >= 1

\* C7: a call on a key without a Session creates one with empty state before
\* it submits the query and submits it against that Session; a call on a key
\* with a Session creates none and submits against the existing one; no call
\* is rejected
C7_CreateBeforeSubmit ==
    \A c \in Calls :
        Started(c) =>
            /\ calls[c].pc # "rejected"
            /\ \E g \in OpsOf("get_session"), r \in OpsOf("run") :
                   /\ ops[g].call = c /\ ops[r].call = c /\ g < r
                   /\ ops[r].key = calls[c].key
                   /\ LET known == \E h \in CreatesFor(calls[c].key) : h < g
                          mine == {i \in OpsOf("create_session") : ops[i].call = c}
                      IN  IF known
                          THEN /\ mine = {}
                               /\ ~calls[c].fresh
                               /\ \E h \in CreatesFor(calls[c].key) :
                                      h < g /\ ops[r].session = ops[h].session
                          ELSE /\ calls[c].fresh
                               /\ \E i \in mine :
                                      /\ mine = {i}
                                      /\ g < i /\ i < r
                                      /\ ops[i].key = calls[c].key
                                      /\ ops[i].session.id = calls[c].key
                                      /\ ops[i].session.state = EmptyState
                                      /\ ops[r].session = ops[i].session

\* a call that created its Session and a later one that found it
C7_Witness ==
    \E c, d \in Calls :
        /\ Started(c) /\ calls[c].fresh
        /\ Started(d) /\ ~calls[d].fresh /\ calls[d].key = calls[c].key
        /\ calls[c].kind # calls[d].kind

(***************************************************************************)
(* Properties of the loader and of the release scope (SpecLoad)            *)
(***************************************************************************)
Reverse(q) == [i \in 1..Len(q) |-> q[Len(q) + 1 - i]]
Range(q) == {q[i] : i \in 1..Len(q)}

\* get_tools_async has been called and control has left it
LoadingOver ==
    mpc \notin {"start", "load", "connecting", "merge"} /\ exc # "MissingAPIKeyError"

\* the process is over
Terminated == mpc \in {"returned", "exited"}

\* the tool handles of the servers that connected, in the order of connection
RECURSIVE HandlesOf(_)
HandlesOf(opened) ==
    IF opened = <<>> THEN <<>>
    ELSE toolset_of(Head(opened), exposes[Head(opened)]) \o HandlesOf(Tail(opened))

\* C8: when loading is over every configured server has been attempted,
\* whichever of them failed to connect, and the registry holds the tool
\* handles of exactly the servers that connected
C8_FailureDoesNotAbort ==
    LoadingOver =>
        /\ attempted = 1..servers
        /\ tools = HandlesOf(openLog)
        /\ agent_tools # NoAgent => agent_tools.tools = HandlesOf(openLog)

\* C9: when the process is over every connection that was opened has been
\* closed, whichever servers failed to connect
C9_AllReleased ==
    Terminated => Range(openLog) \subseteq Range(closeLog)

\* C10: once the stack returned by loading has been released, the connections
\* were closed in the reverse of the order in which they were opened, each
\* once (as many closes as opens); while it is being released the closes are
\* the first ones of that order; nothing is closed outside the release
C10_ReleaseReverseOnce ==
    /\ scope = "released" => closeLog = Reverse(openLog)
    /\ scope = "releasing" =>
           /\ Len(closeLog) <= Len(openLog)
           /\ closeLog = SubSeq(Reverse(openLog), 1, Len(closeLog))
    /\ scope \in {"open", "entered"} => closeLog = <<>>
    /\ Cardinality(Range(closeLog)) = Len(closeLog)

\* the release of a stack that holds several connections is complete
C10_Witness ==
    /\ scope = "released"
    /\ Len(openLog) >= 2
    /\ Len(closeLog) = Len(openLog)
    /\ exit_stack = <<>> /\ stack = <<>>

\* the state of the descriptor of server i in the loop of get_tools_async
DescriptorState(i) ==
    IF mpc = "connecting" /\ idx = i THEN "Connecting"
    ELSE IF i \in Range(openLog) THEN "Connected"
    ELSE IF i \in attempted THEN "Failed"
    ELSE "Pending"

\* get_tools_async has returned the registry to its caller
Ready == LoadingOver /\ exc \notin {"ProviderConnectError", "RegisterError"}

\* the moves a descriptor may make in one step
DescriptorStep(i) ==
    \/ DescriptorState(i)' = DescriptorState(i)
    \/ DescriptorState(i) = "Pending" /\ DescriptorState(i)' = "Connecting"
    \/ DescriptorState(i) = "Connecting" /\ DescriptorState(i)' \in {"Connected", "Failed"}

\* C11: a descriptor only moves Pending -> Connecting -> Connected or Failed,
\* so it is attempted at most once and Connected and Failed are never left;
\* the registry is returned only when every descriptor is Connected or Failed
C11_DescriptorLifecycle ==
    /\ [](Ready => \A i \in 1..servers : DescriptorState(i) \in {"Connected", "Failed"})
    /\ [][\A i \in 1..servers : DescriptorStep(i)]_vars

\* the registry has been returned after several descriptors went through
\* Connecting to Connected
C11_Witness ==
    /\ Ready
    /\ servers >= 2
    /\ \A i \in 1..servers : DescriptorState(i) = "Connected"

\* C12: the registry reaches get_agent_async and the agent only whole: when
\* it has been returned, and when an agent holds it, every descriptor has
\* been attempted and the registry is the merge of all the toolsets that
\* were obtained; when loading is aborted no agent is given a registry
C12_NoPartialRegistry ==
    /\ (Ready \/ agent_tools # NoAgent) =>
           /\ attempted = 1..servers
           /\ \A i \in 1..servers : DescriptorState(i) \in {"Connected", "Failed"}
           /\ tools = HandlesOf(openLog)
    /\ agent_tools # NoAgent => agent_tools.tools = HandlesOf(openLog)
    /\ exc = "ProviderConnectError" => agent_tools = NoAgent

\* an agent holds a registry merged from the toolsets of several servers
C12_Witness ==
    /\ agent_tools # NoAgent
    /\ Len(openLog) >= 2
    /\ Len(agent_tools.tools) >= 2

\* C19: without the credential start-up aborts before anything is set up: no
\* server is attempted and no connection opened, no agent is constructed,
\* the release scope is never entered and the server never started; the
\* process ends with the error logged once and exit status 1
C19_MissingKeyAborts ==
    ~has_key =>
        /\ mpc \in {"start", "handler", "exited"}
        /\ attempted = {} /\ openLog = <<>> /\ tools = <<>>
        /\ agent_tools = NoAgent
        /\ scope = "open" /\ exit_stack = <<>>
        /\ mpc # "start" => exc = "MissingAPIKeyError"
        /\ mpc = "exited" => errlog = <<"Error">> /\ exitcode = 1

\* start-up was aborted for the missing credential although servers were
\* configured
C19_Witness ==
    /\ ~has_key
    /\ servers >= 1
    /\ mpc = "exited"
    /\ exitcode = 1

(***************************************************************************)
(* Properties of the turns of the bridge (Spec): registry, failures,       *)
(* abandonment, order of the turns                                         *)
(***************************************************************************)
\* the results stream yields for the events of the engine, up to the event
\* whose handling raises
RECURSIVE ResultsOf(_)
ResultsOf(events) ==
    IF events = <<>> THEN <<>>
    ELSE LET o == stream_event(Head(events))
         IN  IF IsRaise(o) THEN <<>> ELSE <<o.value>> \o ResultsOf(Tail(events))

RunsOf(c) == {r \in OpsOf("run") : ops[r].call = c}

\* the turn of call d went as a turn goes whose engine did what it did in
\* that turn, whatever happened in other turns
NormalTurn(d) ==
    /\ calls[d].pc # "rejected"
    /\ sessions[calls[d].key] = calls[d].session
    /\ Cardinality(RunsOf(d)) = 1
    /\ calls[d].pc = "failed" <=> calls[d].engine = "failed"
    /\ calls[d].kind = "invoke" /\ calls[d].engine = "over" =>
           calls[d].pc = "done" /\ calls[d].ret = invoke_text(calls[d].events)
    /\ calls[d].kind = "stream" =>
           /\ calls[d].out = ResultsOf(calls[d].events)
           /\ calls[d].engine = "over" => calls[d].pc = "done"

\* C13: the agent keeps the registry it was constructed with: it is the same
\* in every state, and no step of an invoke or a stream, on any key, changes
\* it
C13_RegistryImmutable ==
    /\ [](agent_tools = Registry)
    /\ [][agent_tools' = agent_tools]_vars

\* an invoke and a stream on different keys have run with the registry
C13_Witness ==
    /\ agent_tools = Registry
    /\ Len(agent_tools.tools) >= 1
    /\ Started(1) /\ Started(2)
    /\ calls[1].kind # calls[2].kind
    /\ calls[1].key # calls[2].key
    /\ calls[1].events # <<>> /\ calls[2].events # <<>>

\* C14: when the engine failed in the turn of a call on key k, that call
\* ended in error, the Session of k is still stored and is the one Session
\* ever created for k, and every other call, on k or not, resolved its
\* Session (a call on k the same one), was not rejected and has the results
\* its own engine events give
C14_FailureIsLocal ==
    \A c \in Calls :
        calls[c].engine = "failed" =>
            /\ calls[c].pc = "failed"
            /\ sessions[calls[c].key] # NoSession
            /\ sessions[calls[c].key] = calls[c].session
            /\ Cardinality(CreatesFor(calls[c].key)) = 1
            /\ \A d \in Calls \ {c} :
                   Started(d) =>
                       /\ NormalTurn(d)
                       /\ calls[d].key = calls[c].key =>
                              /\ calls[d].session = calls[c].session
                              /\ d > c => ~calls[d].fresh

\* a stream failed after a result, and a later invoke on the same key, begun
\* when that turn was over, returned the text of its own events
C14_Witness ==
    /\ calls[1].kind = "stream" /\ calls[1].pc = "failed" /\ calls[1].out # <<>>
    /\ calls[2].kind = "invoke" /\ calls[2].key = calls[1].key
    /\ calls[2].alone /\ ~calls[2].fresh
    /\ calls[2].pc = "done" /\ calls[2].ret = Str("a")

\* C15: when the engine fails under a stream, the call ends in error with
\* the results it had yielded and no result for the failure; it yields
\* nothing and changes in nothing afterwards; the runner was called once
C15_StreamFailureTerminal ==
    /\ [](\A c \in Calls :
              (calls[c].kind = "stream" /\ calls[c].engine = "failed") =>
                  /\ calls[c].pc = "failed"
                  /\ calls[c].out = ResultsOf(calls[c].events)
                  /\ Cardinality(RunsOf(c)) = 1)
    /\ [][\A c \in Calls :
              /\ (calls[c].kind = "stream" /\ calls[c].engine = "failed") =>
                     calls'[c] = calls[c]
              /\ (calls[c].engine = "running" /\ calls'[c].engine = "failed") =>
                     calls'[c].out = calls[c].out]_vars

\* a stream failed after it had yielded a Progress result
C15_Witness ==
    \E c \in Calls :
        /\ calls[c].kind = "stream" /\ calls[c].pc = "failed"
        /\ calls[c].engine = "failed"
        /\ calls[c].out # <<>> /\ calls[c].out[1] = Progress

\* C16: an invoke whose engine failed ended in error and returned nothing;
\* an invoke that returned "" had an engine that completed, with no event or
\* with a last event without text
C16_InvokeFailureSurfaced ==
    \A c \in Calls :
        calls[c].kind = "invoke" =>
            /\ calls[c].engine = "failed" =>
                   calls[c].pc = "failed" /\ calls[c].ret = Unset
            /\ calls[c].ret = Str("") =>
                   /\ calls[c].engine = "over"
                   /\ \/ calls[c].events = <<>>
                      \/ ~HasText(calls[c].events[Len(calls[c].events)].content)

\* one invoke failed, another returned "" for events without text
C16_Witness ==
    \E c, d \in Calls :
        /\ calls[c].kind = "invoke" /\ calls[c].pc = "failed"
        /\ calls[d].kind = "invoke" /\ calls[d].pc = "done"
        /\ calls[d].ret = Str("") /\ calls[d].events # <<>>

\* C17: once the caller has stopped consuming a stream after a Progress
\* result, the engine invocation of that turn has been cancelled: none is
\* left in flight
C17_AbandonCancels ==
    \A c \in Calls : calls[c].pc = "abandoned" => calls[c].engine = "cancelled"

\* the calls whose query the log records, in the order of the log
RECURSIVE UserCalls(_)
UserCalls(log) ==
    IF log = <<>> THEN <<>>
    ELSE IF Head(log).author = "user"
         THEN <<Head(log).call>> \o UserCalls(Tail(log))
         ELSE UserCalls(Tail(log))

\* the calls submitted on key k, in the order of submission
RECURSIVE Submitted(_, _)
Submitted(h, k) ==
    IF h = <<>> THEN <<>>
    ELSE IF Head(h).op = "run" /\ Head(h).key = k
         THEN <<Head(h).call>> \o Submitted(Tail(h), k)
         ELSE Submitted(Tail(h), k)

\* d is the turn submitted on the key of c next after c, and both were
\* submitted when no other turn on that key was under way
NextTurn(c, d) ==
    /\ c < d /\ Started(d)
    /\ calls[d].key = calls[c].key
    /\ calls[c].alone /\ calls[d].alone
    /\ \A e \in (c + 1)..(d - 1) : calls[e].key # calls[c].key

\* C18: a turn submitted after the previous turn on its key is over runs
\* against the same Session and finds its log as that turn left it; the log
\* of a Session records the queries in the order of submission
C18_SequentialTurns ==
    /\ \A c, d \in Calls :
           NextTurn(c, d) =>
               /\ calls[d].session = calls[c].session
               /\ ~calls[d].fresh
               /\ calls[d].seen = calls[c].left
               /\ calls[d].seen # <<>>
    /\ \A k \in Keys :
           sessions[k] # NoSession =>
               UserCalls(history[sessions[k].obj]) = Submitted(ops, k)

\* a stream and then an invoke on one key, the invoke submitted after the
\* stream returned, each with events of the engine
C18_Witness ==
    /\ NextTurn(1, 2)
    /\ calls[1].kind = "stream" /\ calls[1].pc = "done" /\ calls[1].events # <<>>
    /\ calls[2].kind = "invoke" /\ calls[2].pc = "done" /\ calls[2].events # <<>>
    /\ Len(calls[2].seen) >= 2

\* C20: a key that has a Session has the same Session after every step,
\* whether the step is a return, a failure or an abandonment
C20_SessionsKept ==
    [][\A k \in Keys : sessions[k] # NoSession => sessions'[k] = sessions[k]]_vars

\* both keys have their Session after a turn has failed
C20_Witness ==
    /\ \A k \in Keys : sessions[k] # NoSession
    /\ \E c \in Calls : calls[c].pc = "failed"

C22_ResultShapes ==
    \A i \in 1..Len(xout) :
        IF xout[i].is_task_complete
        THEN DOMAIN xout[i] = {"is_task_complete", "content"}
        ELSE /\ DOMAIN xout[i] = {"is_task_complete", "updates"}
             /\ xout[i].updates = "Processing the Sonarqube request..."

\* stream yielded a Progress result for an event that has content, and then
\* a Completed result with a payload
C22_Witness ==
    /\ Len(xout) = 2 /\ Len(xevents) = 2
    /\ xevents[1].content # NoContent
    /\ ~xout[1].is_task_complete
    /\ xout[2].is_task_complete /\ xout[2].content # Str("")

(***************************************************************************)
(* Frame of a turn over keys and agent instances (SpecAgents)              *)
(***************************************************************************)
\* the step starts call c with session key k
Starts(c, k) == calls[c].pc = "new" /\ calls'[c].pc # "new" /\ calls'[c].key = k

\* the agents whose session service holds the Session call c resolved
HoldersOf(c) == {a \in Agents : stores[a][calls[c].key] = calls[c].session}

\* C23: a step changes the session services in at most one place, the key
\* of the turn in one agent, and only by creating the Session there; it
\* changes the log of no Session but the one the turn runs against; the
\* Session of a call is held by one agent only, and the Sessions of two
\* agents are never the same object, for the same key or not
C23_TurnFrame ==
    /\ [][\A a \in Agents, k \in Keys :
              stores'[a][k] # stores[a][k] =>
                  /\ stores[a][k] = NoSession
                  /\ \E c \in Calls : Starts(c, k)
                  /\ \A b \in Agents, j \in Keys :
                         (b # a \/ j # k) => stores'[b][j] = stores[b][j]]_vars
    /\ [][\A o \in 1..Len(history) :
              history'[o] # history[o] =>
                  \E c \in Calls : Starts(c, calls'[c].key) /\ calls'[c].session.obj = o]_vars
    /\ [](\A c \in Calls : Started(c) => Cardinality(HoldersOf(c)) = 1)
    /\ [](\A a, b \in Agents, k, j \in Keys :
              (a # b /\ stores[a][k] # NoSession /\ stores[b][j] # NoSession) =>
                  stores[a][k].obj # stores[b][j].obj)

\* two agents each have a Session for the same key
C23_Witness ==
    \E k \in Keys :
        /\ \A a \in Agents : stores[a][k] # NoSession
        /\ \E c, d \in Calls :
               /\ c # d /\ calls[c].key = k /\ calls[d].key = k
               /\ calls[c].fresh /\ calls[d].fresh
               /\ calls[c].session # calls[d].session

(***************************************************************************)
(* The registry and the release stack at the exits of get_tools_async      *)
(***************************************************************************)
\* control has just left get_tools_async: by its return, or by an exception
\* of from_server or of enter_async_context
LeftLoader ==
    \/ mpc = "build"
    \/ mpc = "unwind" /\ exc \in {"ProviderConnectError", "RegisterError"}

\* C24: when control leaves get_tools_async, every tool handle in the
\* registry is of a server whose connection is on the release stack
C24_RegistryWithinScope ==
    LeftLoader => \A i \in 1..Len(tools) : tools[i].server \in Range(stack)

\* C25: the server is serving only when every configured server has been
\* loaded and the returned stack is entered in the scope of start-up, and
\* then no connection has been closed; when the process is over after a
\* failure of the agent construction, the server construction or the server
\* start, every connection that was opened has been closed
C25_StartupOrderAndRelease ==
    /\ mpc = "serving" =>
           /\ attempted = 1..servers
           /\ Range(openLog) = 1..servers
           /\ Range(stack) = Range(openLog)
           /\ scope = "entered" /\ exit_stack # <<>>
           /\ agent_tools # NoAgent
           /\ closeLog = <<>>
    /\ (Terminated /\ exc \in {"AgentError", "ServerError"}) =>
           Range(openLog) \subseteq Range(closeLog)

====
